---- MODULE Spec2Model ----
(***************************************************************************)
(* A model of scripts/scrape-swagit.py: the Swagit video re-scraper.       *)
(* The remote portals are fixed fixtures (RemoteSites); the network and    *)
(* the store may fail at every request and every statement.                *)
(***************************************************************************)
EXTENDS Integers, Sequences, FiniteSets, TLC

\* ------------------------------------------------------------------ values

\* Python None / SQL NULL; an optional value is NULL or Some(v).
NULL == <<>>
Some(v) == <<v>>

\* COALESCE(new, old) of the ON CONFLICT clause and of the enrichment UPDATE.
COALESCE(new, old) == IF new # NULL THEN new ELSE old

Min(a, b) == IF a < b THEN a ELSE b

\* The element of a one-element set; One({e(v) : v \in {x}}) is e(x) with x
\* evaluated once.
One(S) == CHOOSE x \in S : TRUE

\* ------------------------------------------------------------------ bounds

\* Largest --max-pages value tried.
MaxPagesArg == 2
\* URLs that the network fails (or delays) during one crawl or enrichment pass.
MaxNetFaults == 1
\* Calls of upsert_videos in a row when it is exercised on its own.
MaxUpsertCalls == 1
\* Calls of fetch in a row when it is exercised on its own.
MaxFetchCalls == 2
\* Links of one kind (tabs, navigation links, other links) on a page tried.
MaxLinks == 2

\* ------------------------------------------------------- program constants

MAX_RETRIES == 2
ENRICH_LIMIT == 20

\* ------------------------------------------------------- remote fixtures

\* A link of a page: kind says what its href looks like.
\*   "viewcat": /views/<view>/<name>     "rootcat": /<name>
\*   "video":   /videos/<view>           "videoidx": /videos/ without a number
\*   "admin", "events": /admin..., /events...
\*   "paged":   contains page=            "slash": the bare "/"
\*   "external": does not start with "/"
Href(kind, view, name) == [kind |-> kind, view |-> view, name |-> name]

\* A table row with a /videos/<id> link, after the cells are read.
Row(id, title, date_str, duration, agenda) ==
    [video_id |-> id, title |-> title, date_str |-> date_str,
     duration |-> duration, agenda |-> agenda]

\* A fetched page: the URL it ended at (final_view: the <n> of /views/<n>,
\* 0 when there is none), its links, its video rows, its 'Next' link and
\* what the streaming patterns find in its text.
Page(final_view, tabs, nav, links, rows, next, hls, uuid) ==
    [final_view |-> final_view, tabs |-> tabs, nav |-> nav, links |-> links,
     rows |-> rows, next |-> next, hls |-> hls, uuid |-> uuid]

ListPage(rows, next) == Page(0, <<>>, <<>>, <<>>, rows, next, NULL, NULL)
DetailPage(hls, uuid) == Page(0, <<>>, <<>>, <<>>, <<>>, FALSE, hls, uuid)

\* A URL of a site.
Url(kind, name, n) == [kind |-> kind, name |-> name, n |-> n]
UrlDefault == Url("default", "", 0)
UrlRoot == Url("root", "", 0)
UrlView(view_id) == Url("view", "", view_id)
UrlCat(name, page) == Url("cat", name, page)
UrlVideo(video_id) == Url("video", "", video_id)

R1 == Row(1, "Council 1", "Jan 05, 2024", "01:00", NULL)
R2 == Row(2, "Council 2", "2024-01-12", "", Some("/agenda/2"))
R2b == Row(2, "Council 2 (planning)", "", "02:00", NULL)
R3 == Row(3, "Planning 3", "TBD", "03:00", NULL)

\* Single-page legacy site: the three rows of one view page.
SiteSingle ==
    [default |-> Some(Page(7, <<>>, <<>>, <<>>,
                           <<Row(10, "M10", "Jan 05, 2024", "01:00", NULL),
                             Row(11, "M11", "", "", NULL),
                             Row(12, "M12", "2024-01-12", "02:00", NULL)>>,
                           FALSE, NULL, NULL)),
     root |-> NULL,
     view |-> Some(ListPage(<<Row(10, "M10", "Jan 05, 2024", "01:00", NULL),
                              Row(11, "M11", "", "", NULL),
                              Row(12, "M12", "2024-01-12", "02:00", NULL),
                              Row(10, "M10 again", "", "", NULL)>>, FALSE)),
     view_id |-> 7,
     cats |-> [n \in {} |-> <<>>],
     endless |-> {},
     detail |-> [id \in {10, 11, 12} |->
                   IF id = 10 THEN Some(DetailPage(Some("hls10"), Some("uuid10")))
                   ELSE IF id = 11 THEN Some(DetailPage(NULL, NULL))
                   ELSE NULL]]

\* Multi-category legacy site: default page {1,2}, one category {2,3}.
SiteMulti ==
    [default |-> Some(Page(7, <<Href("viewcat", 7, "c1"), Href("viewcat", 8, "zz")>>,
                           <<>>, <<>>, <<R1, R2>>, FALSE, NULL, NULL)),
     root |-> NULL,
     view |-> Some(ListPage(<<R1, R2>>, FALSE)),
     view_id |-> 7,
     cats |-> [n \in {"c1"} |-> <<ListPage(<<R2b, R3>>, FALSE)>>],
     endless |-> {},
     detail |-> [id \in {1, 2, 3} |->
                   IF id = 3 THEN Some(DetailPage(Some("hls3"), NULL))
                   ELSE IF id = 1 THEN Some(DetailPage(NULL, Some("uuid1")))
                   ELSE Some(DetailPage(NULL, NULL))]]

\* New-style site: three root-level categories, one of them without end.
SiteNew ==
    [default |-> NULL,
     root |-> Some(Page(0, <<>>,
                        <<Href("rootcat", 0, "council"), Href("video", 1, ""),
                          Href("admin", 0, "admin"), Href("rootcat", 0, "planning"),
                          Href("rootcat", 0, "endless")>>,
                        <<>>, <<R1>>, FALSE, NULL, NULL)),
     view |-> NULL,
     view_id |-> 0,
     cats |-> [n \in {"council", "planning"} |->
                 IF n = "council"
                 THEN <<ListPage(<<R1, R2>>, TRUE), ListPage(<<R2, R3>>, TRUE),
                        ListPage(<<R3>>, TRUE)>>
                 ELSE <<ListPage(<<R2b, R3>>, FALSE)>>],
     endless |-> {"endless"},
     detail |-> [id \in {1, 2, 3} |-> Some(DetailPage(Some("hls"), Some("uuid")))]]

\* A site with neither videos nor categories.
SiteEmpty ==
    [default |-> NULL,
     root |-> Some(Page(0, <<>>, <<>>, <<Href("slash", 0, "")>>, <<>>, FALSE, NULL, NULL)),
     view |-> NULL,
     view_id |-> 0,
     cats |-> [n \in {} |-> <<>>],
     endless |-> {},
     detail |-> [id \in {} |-> NULL]]

RemoteSites == {SiteSingle, SiteMulti, SiteNew, SiteEmpty}

\* The portals tried for the second site of a command line.
SecondSites == {SiteSingle, SiteMulti}

\* Page <page> of a category without end: one fresh video and a 'Next' link.
EndlessPage(page) ==
    ListPage(<<Row(100 + page, "Endless", "", "00:10", NULL)>>, TRUE)

\* What the server holds at a URL: Some(page), or NULL (HTTP 404).
RemotePage(site, url) ==
    CASE url.kind = "default" -> site.default
      [] url.kind = "root" -> site.root
      [] url.kind = "view" -> IF url.n = site.view_id THEN site.view ELSE NULL
      [] url.kind = "cat" ->
            IF url.name \in site.endless THEN Some(EndlessPage(url.n))
            ELSE IF url.name \in DOMAIN site.cats /\ url.n <= Len(site.cats[url.name])
                 THEN Some(site.cats[url.name][url.n])
                 ELSE NULL
      [] url.kind = "video" ->
            IF url.n \in DOMAIN site.detail THEN site.detail[url.n] ELSE NULL
      [] OTHER -> NULL

\* ------------------------------------------------------------ HTTP helpers

\* The network during one crawl: the URLs whose every attempt fails (down)
\* and those whose first attempt alone fails (flaky).
NetUp == [down |-> {}, flaky |-> {}]

\* The status of each attempt on a URL; 0 stands for requests.RequestException.
Outcomes(site, url, net) ==
    LET healthy == IF RemotePage(site, url) # NULL THEN 200 ELSE 404
    IN  IF url \in net.down THEN <<503, 0>>
        ELSE IF url \in net.flaky THEN <<0, healthy>>
        ELSE <<healthy, healthy>>

\* The attempt loop of fetch: ok says whether a response is returned,
\* requests how many GETs were issued.
RECURSIVE fetch_attempt(_, _, _)
fetch_attempt(outcomes, attempt, retries) ==
    IF attempt > retries THEN [ok |-> FALSE, requests |-> retries]
    ELSE LET status == outcomes[attempt]
         IN  IF status = 200 THEN [ok |-> TRUE, requests |-> attempt]
             ELSE IF status \in {404, 410} THEN [ok |-> FALSE, requests |-> attempt]
             ELSE fetch_attempt(outcomes, attempt + 1, retries)

\* fetch(url, retries): Some(page) or NULL.
fetch(site, url, net, retries) ==
    IF fetch_attempt(Outcomes(site, url, net), 1, retries).ok
    THEN RemotePage(site, url)
    ELSE NULL

\* ------------------------------------------------------------ date parsing

\* strptime over DATE_FORMATS: a date is a day number, NULL when no format
\* matches ("01/05/24" has a two-digit year, "TBD" is no date).
parse_date(text) ==
    CASE text \in {"Jan 05, 2024", "January 05, 2024", "01/05/2024", "2024-01-05"}
            -> Some(20240105)
      [] text \in {"Jan 12, 2024", "January 12, 2024", "01/12/2024", "2024-01-12"}
            -> Some(20240112)
      [] OTHER -> NULL

\* ------------------------------------------------------------ HTML parsing

\* VideoRecordOf with "duration or None": no duration text gives NULL.
VideoRecordEmptyAsNull(row, city_slug) ==
    LET video_date == IF row.date_str # "" THEN parse_date(row.date_str) ELSE NULL
    IN  [city_slug |-> city_slug,
         video_id |-> row.video_id,
         title |-> row.title,
         video_date |-> video_date,
         duration |-> IF row.duration = "" THEN NULL ELSE Some(row.duration),
         video_uuid |-> NULL,
         hls_url |-> NULL,
         download_url |-> Some([site |-> city_slug, video |-> row.video_id,
                                 path |-> "download"]),
         agenda_url |-> IF row.agenda = NULL THEN NULL
                        ELSE Some([site |-> city_slug, path |-> row.agenda[1]]),
         data |-> [video_id |-> row.video_id, title |-> row.title,
                   date |-> video_date, duration |-> row.duration]]

\* The VideoRecord built from one row (lines 210-236).
VideoRecordOf(row, city_slug) ==
    LET video_date == IF row.date_str # "" THEN parse_date(row.date_str) ELSE NULL
    IN  [city_slug |-> city_slug,
         video_id |-> row.video_id,
         title |-> row.title,
         video_date |-> video_date,
         duration |-> Some(row.duration),
         video_uuid |-> NULL,
         hls_url |-> NULL,
         download_url |-> Some([site |-> city_slug, video |-> row.video_id,
                                 path |-> "download"]),
         agenda_url |-> IF row.agenda = NULL THEN NULL
                        ELSE Some([site |-> city_slug, path |-> row.agenda[1]]),
         data |-> [video_id |-> row.video_id, title |-> row.title,
                   date |-> video_date, duration |-> row.duration]]

\* The rows of a page from row k on, as records; seen_ids as in the code.
RECURSIVE extract_rows(_, _, _, _)
extract_rows(rows, k, city_slug, seen_ids) ==
    IF k > Len(rows) THEN <<>>
    ELSE IF rows[k].video_id \in seen_ids
         THEN extract_rows(rows, k + 1, city_slug, seen_ids)
         ELSE <<VideoRecordOf(rows[k], city_slug)>>
              \o extract_rows(rows, k + 1, city_slug, seen_ids \cup {rows[k].video_id})

\* extract_videos_from_html without its seen_ids test: one record per row.
extract_every_row(html, city_slug) ==
    [k \in DOMAIN html.rows |-> VideoRecordOf(html.rows[k], city_slug)]

extract_videos_from_html(html, city_slug) ==
    One({extract_rows(rows, 1, city_slug, {}) : rows \in {html.rows}})

has_next_page(html) == html.next

Ids(records_) == {records_[k].video_id : k \in DOMAIN records_}

\* MergeUnseen without its seen_ids test.
MergeAll(all_records_, records_) == all_records_ \o records_

\* The loop "if rec.video_id not in seen_ids: seen_ids.add; all_records.append":
\* all_records followed by the records whose id it does not hold yet.
MergeUnseen(all_records_, records_) ==
    One({all \o SelectSeq(recs, LAMBDA r : r.video_id \notin Ids(all)) :
            all \in {all_records_}, recs \in {records_}})

\* ---------------------------------------------- site discovery and scraping

\* One line of the request log of a crawl: the URL asked for, whether fetch
\* returned a response, and, for a category page, how many unseen videos it
\* added and whether it had a 'Next' link.
LogEntry(url, ok, new_on_page, next) ==
    [url |-> url, ok |-> ok, new_on_page |-> new_on_page, next |-> next]

AllLinks(html) == html.tabs \o html.nav \o html.links

\* The distinct /videos/<n> numbers in the text of a page.
VideoIdsIn(html) ==
    {html.rows[k].video_id : k \in DOMAIN html.rows}
    \cup {AllLinks(html)[k].view :
             k \in {j \in DOMAIN AllLinks(html) : AllLinks(html)[j].kind = "video"}}

\* li[role=presentation] links with "/views/<view_id>/" in the href.
LegacyCategories(tabs, view_id) ==
    SelectSeq(tabs, LAMBDA h : h.kind = "viewcat" /\ h.view = view_id)

\* Links of the stacked/tabbed navigation kept as categories (lines 329-335).
NavCategories(nav) == SelectSeq(nav, LAMBDA h : h.kind \in {"rootcat", "viewcat"})

\* The fallback over all links (lines 339-354) from link k on, with its
\* seen_paths.
RECURSIVE FallbackCategories(_, _, _)
FallbackCategories(links, k, seen_paths) ==
    IF k > Len(links) THEN <<>>
    ELSE IF links[k].kind \in {"rootcat", "viewcat", "videoidx"}
            /\ links[k] \notin seen_paths
         THEN <<links[k]>> \o FallbackCategories(links, k + 1, seen_paths \cup {links[k]})
         ELSE FallbackCategories(links, k + 1, seen_paths)

SiteDescriptor(type, view_id, categories, default_vids) ==
    [type |-> type, view_id |-> view_id, categories |-> categories,
     default_vids |-> default_vids]

\* The legacy branch of discover_site (lines 269-309) on the page that
\* /views/default/ led to.
DiscoverLegacy(html) ==
    One({IF vid_count > 0 /\ categories = <<>>
         THEN SiteDescriptor("old_single", html.final_view, <<>>, vid_count)
         ELSE IF categories # <<>>
         THEN SiteDescriptor("old_multi", html.final_view, categories, vid_count)
         ELSE SiteDescriptor("empty", html.final_view, <<>>, 0) :
            categories \in {LegacyCategories(html.tabs, html.final_view)},
            vid_count \in {Cardinality(VideoIdsIn(html))}})

\* DiscoverRoot that takes the root path itself as the one category when no
\* category link is found on a page with videos.
DiscoverRootAsCategory(html) ==
    One({IF categories # <<>>
         THEN SiteDescriptor("new_style", 0, categories, vid_count)
         ELSE IF vid_count > 0
         THEN SiteDescriptor("new_style", 0, <<Href("slash", 0, "")>>, vid_count)
         ELSE SiteDescriptor("empty", 0, <<>>, 0) :
            categories \in {IF NavCategories(html.nav) # <<>>
                            THEN NavCategories(html.nav)
                            ELSE FallbackCategories(AllLinks(html), 1, {})},
            vid_count \in {Cardinality(VideoIdsIn(html))}})

\* The new-style branch of discover_site (lines 317-373) on the root page.
DiscoverRoot(html) ==
    One({IF categories # <<>> \/ vid_count > 0
         THEN SiteDescriptor("new_style", 0, categories, vid_count)
         ELSE SiteDescriptor("empty", 0, <<>>, 0) :
            categories \in {IF NavCategories(html.nav) # <<>>
                            THEN NavCategories(html.nav)
                            ELSE One({FallbackCategories(links, 1, {}) :
                                         links \in {AllLinks(html)}})},
            vid_count \in {Cardinality(VideoIdsIn(html))}})

\* discover_site: site is Some(descriptor) or NULL (the site cannot be
\* reached), log the requests made.
discover_site(remote_site, net) ==
    One({IF resp # NULL /\ resp[1].final_view > 0
         THEN [site |-> Some(DiscoverLegacy(resp[1])),
               log |-> <<LogEntry(UrlDefault, TRUE, 0, FALSE)>>]
         ELSE One({[site |-> IF root = NULL THEN NULL ELSE Some(DiscoverRoot(root[1])),
                    log |-> <<LogEntry(UrlDefault, resp # NULL, 0, FALSE),
                              LogEntry(UrlRoot, root # NULL, 0, FALSE)>>] :
                      root \in {fetch(remote_site, UrlRoot, net, MAX_RETRIES)}}) :
            resp \in {fetch(remote_site, UrlDefault, net, MAX_RETRIES)}})

\* PageRange one page too far: range(1, max_pages + 2).
PageRangeOneMore(max_pages) == 1 .. max_pages + 1

\* range(1, max_pages + 1)
PageRange(max_pages) == 1 .. max_pages

\* StopAfterPage without the has_next_page test.
StopOnlyWhenNothingNew(new_on_page, html) == new_on_page = 0

\* The two breaks after a page was read (lines 401-405).
StopAfterPage(new_on_page, html) == new_on_page = 0 \/ ~has_next_page(html)

\* The loop of scrape_paginated from page <page> on: all_records and log are
\* what the earlier pages gave.
RECURSIVE paginate(_, _, _, _, _, _, _, _)
paginate(slug, remote_site, name, max_pages, net, page, all_records, log_) ==
    IF page \notin PageRange(max_pages) THEN [records |-> all_records, log |-> log_]
    ELSE One({
        IF resp = NULL
        THEN [records |-> all_records,
              log |-> Append(log_, LogEntry(UrlCat(name, page), FALSE, 0, FALSE))]
        ELSE One({
            IF StopAfterPage(Len(merged) - Len(all_records), resp[1])
            THEN [records |-> merged, log |-> log2]
            ELSE paginate(slug, remote_site, name, max_pages, net, page + 1,
                          merged, log2) :
                merged \in {MergeUnseen(all_records,
                                        extract_videos_from_html(resp[1], slug))},
                log2 \in {Append(log_,
                     LogEntry(UrlCat(name, page), TRUE,
                              Len(MergeUnseen(all_records,
                                      extract_videos_from_html(resp[1], slug)))
                              - Len(all_records),
                              has_next_page(resp[1])))}}) :
            resp \in {fetch(remote_site, UrlCat(name, page), net, MAX_RETRIES)}})

\* scrape_paginated giving up its records when a page fetch fails.
scrape_paginated_all_or_nothing(slug, remote_site, name, max_pages, net) ==
    One({IF \E n \in DOMAIN p.log : ~p.log[n].ok
         THEN [records |-> <<>>, log |-> p.log]
         ELSE p :
            p \in {paginate(slug, remote_site, name, max_pages, net, 1, <<>>, <<>>)}})

scrape_paginated(slug, remote_site, name, max_pages, net) ==
    paginate(slug, remote_site, name, max_pages, net, 1, <<>>, <<>>)

\* What scrape_client hands back: raised (the RuntimeError of line 414), the
\* record list, the category count, and the requests made: log in order,
\* cat_logs one log per scrape_paginated call.
CrawlResult(raised, records_, categories_scraped, log_, cat_logs_, type) ==
    [raised |-> raised, records |-> records_,
     categories_scraped |-> categories_scraped, log |-> log_,
     cat_logs |-> cat_logs_, type |-> type]

\* The "for cat_path, cat_name in categories" loops (lines 460-471, 479-491)
\* from category k on; acc is the result so far.
RECURSIVE scrape_categories(_, _, _, _, _, _, _)
scrape_categories(slug, remote_site, categories, k, max_pages, net, acc) ==
    IF k > Len(categories) THEN acc
    ELSE One({
        One({scrape_categories(slug, remote_site, categories, k + 1, max_pages, net,
                               acc2) :
                acc2 \in {CrawlResult(FALSE, MergeUnseen(acc.records, cat.records),
                                      acc.categories_scraped + 1, acc.log \o cat.log,
                                      Append(acc.cat_logs, cat.log), acc.type)}}) :
            cat \in {scrape_paginated(slug, remote_site, categories[k].name,
                                      max_pages, net)}})

\* scrape_client after discovery, on the descriptor found.
ScrapeSite(slug, remote_site, site, dlog, max_pages, net) ==
    IF site.type = "empty" THEN CrawlResult(FALSE, <<>>, 0, dlog, <<>>, site.type)
    ELSE IF site.type = "new_style"
    THEN scrape_categories(slug, remote_site, site.categories, 1, max_pages, net,
                           CrawlResult(FALSE, <<>>, 0, dlog, <<>>, site.type))
    ELSE One({
        One({IF site.type = "old_single"
             THEN CrawlResult(FALSE, MergeUnseen(<<>>, recs),
                              IF resp # NULL THEN 1 ELSE 0, log1, <<>>, site.type)
             ELSE scrape_categories(slug, remote_site, site.categories, 1, max_pages,
                      net,
                      CrawlResult(FALSE, MergeUnseen(<<>>, recs),
                                  IF recs # <<>> THEN 1 ELSE 0, log1, <<>>,
                                  site.type)) :
                recs \in {IF resp = NULL THEN <<>>
                          ELSE extract_videos_from_html(resp[1], slug)},
                log1 \in {Append(dlog, LogEntry(UrlView(site.view_id), resp # NULL,
                                                0, FALSE))}}) :
            resp \in {fetch(remote_site, UrlView(site.view_id), net, MAX_RETRIES)}})

\* scrape_client without the raise of line 414: an unreachable site is an
\* empty crawl.
scrape_client_without_raise(slug, remote_site, max_pages, net) ==
    One({IF d.site = NULL THEN CrawlResult(FALSE, <<>>, 0, d.log, <<>>, "none")
         ELSE ScrapeSite(slug, remote_site, d.site[1], d.log, max_pages, net) :
            d \in {discover_site(remote_site, net)}})

scrape_client(slug, remote_site, max_pages, net) ==
    One({IF d.site = NULL THEN CrawlResult(TRUE, <<>>, 0, d.log, <<>>, "none")
         ELSE ScrapeSite(slug, remote_site, d.site[1], d.log, max_pages, net) :
            d \in {discover_site(remote_site, net)}})

\* ------------------------------------------------------ database operations

\* The unique key of the videos table.
Key(r) == <<r.city_slug, r.video_id>>
KeysOf(rows) == {Key(r) : r \in rows}
RowsOf(rows, slug) == {r \in rows : r.city_slug = slug}

get_existing_video_ids(rows, slug) == {r.video_id : r \in RowsOf(rows, slug)}

\* ConflictUpdate with every column taken from EXCLUDED.
ConflictOverwrite(old, rec) == rec

\* DO UPDATE SET ... of the upsert statement (lines 527-535).
ConflictUpdate(old, rec) ==
    [city_slug |-> old.city_slug,
     video_id |-> old.video_id,
     title |-> rec.title,
     video_date |-> COALESCE(rec.video_date, old.video_date),
     duration |-> COALESCE(rec.duration, old.duration),
     video_uuid |-> COALESCE(rec.video_uuid, old.video_uuid),
     hls_url |-> COALESCE(rec.hls_url, old.hls_url),
     download_url |-> COALESCE(rec.download_url, old.download_url),
     agenda_url |-> COALESCE(rec.agenda_url, old.agenda_url),
     data |-> rec.data]

\* UpsertRow with video_id alone as the conflict target.
UpsertRowByVideoId(rows, rec) ==
    IF \A r \in rows : r.video_id # rec.video_id THEN rows \cup {rec}
    ELSE {IF r.video_id = rec.video_id THEN ConflictUpdate(r, rec) ELSE r : r \in rows}

\* UpsertRow as a plain INSERT, with no conflict target.
InsertRow(rows, rec) == rows \cup {rec}

\* INSERT ... ON CONFLICT (city_slug, video_id) DO UPDATE for one record.
UpsertRow(rows, rec) ==
    IF \A r \in rows : Key(r) # Key(rec) THEN rows \cup {rec}
    ELSE {IF Key(r) = Key(rec) THEN ConflictUpdate(r, rec) ELSE r : r \in rows}

\* IsInsert as "if row:", true of every returned row.
IsRowReturned(rows, rec) == TRUE

\* IsInsert looking at the video id alone, whatever the site.
IsInsertByVideoId(rows, rec) == \A r \in rows : r.video_id # rec.video_id

\* RETURNING (xmax = 0) AS is_insert
IsInsert(rows, rec) == Key(rec) \notin KeysOf(rows)

\* The loop of upsert_videos from record k on.
RECURSIVE upsert_loop(_, _, _, _, _)
upsert_loop(rows, records_, k, new_count, updated_count) ==
    IF k > Len(records_)
    THEN [videos |-> rows, new_count |-> new_count, updated_count |-> updated_count]
    ELSE One({upsert_loop(after, records_, k + 1,
                          IF inserted THEN new_count + 1 ELSE new_count,
                          IF inserted THEN updated_count ELSE updated_count + 1) :
                 after \in {UpsertRow(rows, records_[k])},
                 inserted \in {IsInsert(rows, records_[k])}})

\* upsert_videos as delete-then-insert of the sites of the batch.
ReplaceVideos(rows_, records_) ==
    [videos |-> {r \in rows_ : \A k \in DOMAIN records_ :
                                   r.city_slug # records_[k].city_slug}
                \cup {records_[k] : k \in DOMAIN records_},
     new_count |-> Len(records_), updated_count |-> 0]

\* upsert_videos when no statement fails: the rows after the commit and the
\* two counts.
upsert_videos(rows_, records_) ==
    One({upsert_loop(rows, recs, 1, 0, 0) : rows \in {rows_}, recs \in {records_}})

\* update_client_video_count with COUNT(video_date), which skips NULLs.
update_client_dated_count(clients_, rows, slug) ==
    [s \in DOMAIN clients_ |->
        IF s = slug THEN Cardinality({r \in RowsOf(rows, slug) : r.video_date # NULL})
        ELSE clients_[s]]

\* UPDATE clients SET video_count = (SELECT COUNT(*) ...) WHERE slug = %s
update_client_video_count(clients_, rows, slug) ==
    [s \in DOMAIN clients_ |->
        IF s = slug THEN Cardinality(RowsOf(rows, slug)) ELSE clients_[s]]

\* The scrape_progress row of (slug, "full_rescrape") after the upsert.
update_scrape_progress(progress_, slug, res) ==
    [progress_ EXCEPT ![slug] =
        Some([status |-> IF res.success THEN "completed" ELSE "error",
              records_scraped |-> res.videos_found,
              error_message |-> res.error])]

\* ---------------------------------------------------------- HLS enrichment

\* enrich_video_hls: what the two patterns find on the detail page.
enrich_video_hls(remote_site, video_id, net) ==
    One({IF resp = NULL THEN [hls_url |-> NULL, video_uuid |-> NULL]
         ELSE [hls_url |-> resp[1].hls, video_uuid |-> resp[1].uuid] :
            resp \in {fetch(remote_site, UrlVideo(video_id), net, 1)}})

\* r.video_date or date.min
DateKey(r) == IF r.video_date = NULL THEN 0 ELSE r.video_date[1]

\* NotExisting without its filter: every crawled record.
EveryRecord(records_, existing) == records_

\* [r for r in records if r.video_id not in existing_ids]
NotExisting(records_, existing) ==
    SelectSeq(records_, LAMBDA r : r.video_id \notin existing)

\* list.sort(key=..., reverse=True), descending and stable: the place of the
\* k-th record is one more than the number of records that go before it.
SortByDateDesc(records_) ==
    One({One({[p \in DOMAIN recs |-> recs[CHOOSE k \in DOMAIN recs : place[k] = p]] :
                 place \in {[k \in DOMAIN recs |->
                               1 + Cardinality({j \in DOMAIN recs :
                                     \/ DateKey(recs[j]) > DateKey(recs[k])
                                     \/ (DateKey(recs[j]) = DateKey(recs[k])
                                         /\ j < k)})]}}) :
            recs \in {records_}})

\* EnrichSelection without the [:limit] slice.
EnrichSelectionUncapped(records_, existing, limit) ==
    SortByDateDesc(NotExisting(records_, existing))

\* new_records[:limit] of enrich_missing_hls
EnrichSelection(records_, existing, limit) ==
    One({SubSeq(new_records, 1, Min(limit, Len(new_records))) :
            new_records \in {SortByDateDesc(NotExisting(records_, existing))}})

\* EnrichUpdate with both columns set to what was found, without COALESCE.
EnrichOverwrite(rows, slug, video_id, found) ==
    {IF Key(r) = <<slug, video_id>>
     THEN [r EXCEPT !.hls_url = found.hls_url, !.video_uuid = found.video_uuid]
     ELSE r : r \in rows}

\* UPDATE videos SET hls_url = COALESCE(%s, hls_url), video_uuid = ... WHERE key
EnrichUpdate(rows, slug, video_id, found) ==
    {IF Key(r) = <<slug, video_id>>
     THEN [r EXCEPT !.hls_url = COALESCE(found.hls_url, @),
                    !.video_uuid = COALESCE(found.video_uuid, @)]
     ELSE r : r \in rows}

\* The loop of enrich_missing_hls over the selection from record k on; each
\* UPDATE is committed on its own.  fault_at is the number of the UPDATE at
\* which the store raises (0: none); raised says the store error left the
\* function; fetched lists the detail pages asked for.
RECURSIVE enrich_loop(_, _, _, _, _, _, _, _, _)
enrich_loop(rows, slug, remote_site, todo, k, net, fault_at, updates, fetched) ==
    IF k > Len(todo) THEN [videos |-> rows, raised |-> FALSE, fetched |-> fetched]
    ELSE One({
        IF found.hls_url # NULL \/ found.video_uuid # NULL
        THEN IF fault_at = updates + 1
             THEN [videos |-> rows, raised |-> TRUE, fetched |-> fetched2]
             ELSE One({enrich_loop(after, slug, remote_site, todo, k + 1, net,
                                   fault_at, updates + 1, fetched2) :
                          after \in {EnrichUpdate(rows, slug, todo[k].video_id, found)}})
        ELSE enrich_loop(rows, slug, remote_site, todo, k + 1, net, fault_at,
                         updates, fetched2) :
            found \in {enrich_video_hls(remote_site, todo[k].video_id, net)},
            fetched2 \in {Append(fetched, todo[k].video_id)}})

enrich_missing_hls(rows_, slug, remote_site, records_, existing, limit, net, fault_at) ==
    One({enrich_loop(rows, slug, remote_site, todo, 1, net, fault_at, 0, <<>>) :
            rows \in {rows_}, todo \in {EnrichSelection(records_, existing, limit)}})

\* ------------------------------------------------------------- environment

\* The networks that are down, or flaky, for one more of the URLs.
Down(net, urls) ==
    {[net EXCEPT !.down = @ \cup {u}] : u \in urls \ (net.down \cup net.flaky)}
Flaky(net, urls) ==
    {[net EXCEPT !.flaky = @ \cup {u}] : u \in urls \ (net.down \cup net.flaky)}

Asked(log_) == {log_[k].url : k \in DOMAIN log_}

\* The networks that fail at most k of the URLs a crawl of the site asks for
\* (a URL that is never asked for makes no difference, and neither does a
\* flaky one, which fetch gets on its second attempt).
RECURSIVE CrawlNets(_, _, _, _)
CrawlNets(slug, remote_site, max_pages, k) ==
    IF k = 0 THEN {NetUp}
    ELSE LET less == CrawlNets(slug, remote_site, max_pages, k - 1)
         IN  UNION {{p} \cup Down(p, Asked(scrape_client(slug, remote_site,
                                                         max_pages, p).log)) :
                       p \in less}

\* The detail pages of a selection that the portal serves.
Served(remote_site, selection) ==
    {UrlVideo(id) : id \in {x \in Ids(selection) :
                               RemotePage(remote_site, UrlVideo(x)) # NULL}}

\* The networks that fail or delay at most k of the detail pages of an
\* enrichment pass, which asks for each page once (retries=1).  (A failure
\* on a page that the portal does not serve makes no difference: fetch
\* returns None either way.)
RECURSIVE DetailNets(_, _, _)
DetailNets(remote_site, selection, k) ==
    IF k = 0 THEN {NetUp}
    ELSE LET less == DetailNets(remote_site, selection, k - 1)
         IN  UNION {{p} \cup Down(p, Served(remote_site, selection))
                           \cup Flaky(p, Served(remote_site, selection)) :
                       p \in less}

\* Rows left in the store by earlier runs against earlier page contents.
PriorRows ==
    {[city_slug |-> "a", video_id |-> 1, title |-> "Old title",
      video_date |-> Some(20230101), duration |-> Some("00:59"),
      video_uuid |-> Some("uuid-old"), hls_url |-> Some("hls-old"),
      download_url |-> Some([site |-> "a", video |-> 1, path |-> "download"]),
      agenda_url |-> Some([site |-> "a", path |-> "/agenda/old"]),
      data |-> [video_id |-> 1, title |-> "Old title", date |-> Some(20230101),
                duration |-> "00:59"]],
     [city_slug |-> "a", video_id |-> 2, title |-> "Old 2",
      video_date |-> Some(20230102), duration |-> Some("00:10"),
      video_uuid |-> NULL, hls_url |-> NULL,
      download_url |-> Some([site |-> "a", video |-> 2, path |-> "download"]),
      agenda_url |-> NULL,
      data |-> [video_id |-> 2, title |-> "Old 2", date |-> Some(20230102),
                duration |-> "00:10"]],
     [city_slug |-> "a", video_id |-> 99, title |-> "Gone from the site",
      video_date |-> NULL, duration |-> Some(""),
      video_uuid |-> NULL, hls_url |-> NULL,
      download_url |-> Some([site |-> "a", video |-> 99, path |-> "download"]),
      agenda_url |-> NULL,
      data |-> [video_id |-> 99, title |-> "Gone from the site", date |-> NULL,
                duration |-> ""]]}

InitialStores == {{}, PriorRows}

\* The command lines tried.
SlugLists == {<<"a">>, <<"a", "b">>}

Args(slugs, dry_run, max_pages, enrich_hls) ==
    [slugs |-> slugs, dry_run |-> dry_run, max_pages |-> max_pages,
     enrich_hls |-> enrich_hls]

ArgsTried ==
    {Args(sl, d, k, e) : sl \in SlugLists, d \in BOOLEAN, k \in 0 .. MaxPagesArg,
                         e \in BOOLEAN}

SlugsOf(slugs) == {slugs[k] : k \in DOMAIN slugs}

\* ------------------------------------------------------------------- state

VARIABLES
    remote,        \* slug -> what the portal of that site serves
    videos,        \* committed rows of the videos table
    clients,       \* slug -> video_count, for the rows of the clients table
    progress,      \* slug -> NULL or Some(row) of scrape_progress
    conn,          \* "closed", "ready", or "aborted" (failed transaction)
    run,           \* runs of the script started so far
    args,          \* command line of the script, the same in every run
    i,             \* main: position in slugs of the site being processed
    results,       \* main: the ScrapeResults so far
    exit_code,     \* exit status of the last finished run
    pc,            \* "idle", "site", "crawl", "upsert", "count", "enrich", "progress"
    result,        \* scrape_one_client: its ScrapeResult
    existing_ids,  \* scrape_one_client: ids stored before the crawl
    records,       \* scrape_one_client: the crawled records
    log,           \* requests of the current site's crawl, in order
    cat_logs,      \* the same, one log per scrape_paginated call
    enriched,      \* video ids whose detail page the current pass asked for
    obs,           \* this run, per site: what the environment did to it
    start,         \* the videos table when the current run began
    prev,          \* NULL, or Some(summary of the run before the current one)
    site,          \* scrape_client: NULL, or what discover_site returned
    wire,          \* fetch on its own: the requests and sleeps so far, in order
    calls          \* fetch on its own: the calls of fetch so far, the last one current

vars == <<remote, videos, clients, progress, conn, run, args, i, results, exit_code,
          pc, result, existing_ids, records, log, cat_logs, enriched, obs, start, prev,
          site, wire, calls>>

store == <<videos, clients, progress>>
locals == <<existing_ids, records, log, cat_logs, enriched, site>>
http == <<wire, calls>>
beside_http == <<remote, videos, clients, progress, conn, run, args, i, results,
                 exit_code, pc, result, existing_ids, records, log, cat_logs,
                 enriched, obs, start, prev, site>>
fixed == <<remote, run, args, start, prev, exit_code, http>>

ScrapeResult(slug) ==
    [slug |-> slug, success |-> FALSE, videos_found |-> 0, videos_new |-> 0,
     videos_updated |-> 0, error |-> NULL, categories_scraped |-> 0]

\* What happened to one site in a run: net_clean, every request of the site got
\* the page the portal holds; store_fault, the step ("select", "upsert",
\* "count", "enrich", "progress") at which the store raised on a statement of
\* this site on a healthy connection, "none" when it did not.
Observation == [net_clean |-> TRUE, store_fault |-> "none"]

slug_now == args.slugs[i]

Init ==
    /\ args \in ArgsTried
    /\ remote \in {r \in [SlugsOf(args.slugs) -> RemoteSites] :
                       \A k \in 2 .. Len(args.slugs) : r[args.slugs[k]] \in SecondSites}
    /\ videos \in InitialStores
    /\ clients = [s \in {"a"} |-> Cardinality(RowsOf(videos, s))]
    /\ progress = [s \in SlugsOf(args.slugs) |-> NULL]
    /\ conn = "closed"
    /\ run = 0
    /\ i = 1
    /\ results = <<>>
    /\ exit_code = 0
    /\ pc = "idle"
    /\ result = ScrapeResult("")
    /\ existing_ids = {}
    /\ records = <<>>
    /\ log = <<>>
    /\ cat_logs = <<>>
    /\ enriched = <<>>
    /\ obs = [s \in {} |-> Observation]
    /\ start = videos
    /\ prev = NULL
    /\ site = NULL
    /\ wire = <<>>
    /\ calls = <<>>

\* main up to the loop: connect.  The script is run once, and once more
\* (the re-run) when its command line names a single site.
StartRun ==
    /\ pc = "idle"
    /\ run = 0 \/ (run = 1 /\ Len(args.slugs) = 1)
    /\ run' = run + 1
    /\ conn' = "ready"
    /\ i' = 1
    /\ results' = <<>>
    /\ pc' = "site"
    /\ obs' = [s \in {} |-> Observation]
    /\ start' = videos
    /\ prev' = IF run = 0 THEN NULL
               ELSE Some([start |-> start, videos |-> videos,
                          results |-> results, obs |-> obs])
    /\ UNCHANGED <<remote, args, store, exit_code, result, locals, http>>

\* return result (line 677 or 709), back in the loop of main.
Return(res) ==
    /\ result' = res
    /\ results' = Append(results, res)
    /\ i' = i + 1
    /\ pc' = "site"

\* Handler without the "if not dry_run" of line 702.
HandlerAlwaysRecords(res, err, conn_now, fault) ==
    LET failed == [res EXCEPT !.error = Some(err)]
    IN  /\ IF conn_now = "ready" /\ ~fault
           THEN /\ conn' = "ready"
                /\ progress' = update_scrape_progress(progress, slug_now, failed)
           ELSE /\ conn' = "aborted"
                /\ progress' = progress
        /\ Return(failed)

\* The except block (lines 698-707) entered with the connection in state
\* conn_now; fault: the store raises on the progress statement itself.
Handler(res, err, conn_now, fault) ==
    LET failed == [res EXCEPT !.error = Some(err)]
    IN  /\ IF args.dry_run
           THEN /\ conn' = conn_now
                /\ progress' = progress
           ELSE IF conn_now = "ready" /\ ~fault
           THEN /\ conn' = "ready"
                /\ progress' = update_scrape_progress(progress, slug_now, failed)
           ELSE /\ conn' = "aborted"
                /\ progress' = progress
        /\ Return(failed)

\* A statement on the connection raises: always on an aborted transaction,
\* and on a healthy one when the store fails (fault).
Raises(fault) == conn = "aborted" \/ fault
StoreError(fault) == IF conn = "aborted" THEN "InFailedSqlTransaction" ELSE "store error"
Note(o, fault, step) ==
    [o EXCEPT !.store_fault = IF conn = "ready" /\ fault THEN step ELSE @]

\* scrape_one_client, lines 662-667.
GetExisting ==
    /\ pc = "site"
    /\ i <= Len(args.slugs)
    /\ log' = <<>>
    /\ cat_logs' = <<>>
    /\ enriched' = <<>>
    /\ records' = <<>>
    /\ site' = NULL
    /\ \E fault \in BOOLEAN :
          LET o == Note(Observation, fault /\ ~args.dry_run, "select")
          IN  /\ obs' = [s \in DOMAIN obs \cup {slug_now} |->
                            IF s = slug_now THEN o ELSE obs[s]]
              /\ IF args.dry_run
                 THEN /\ ~fault
                      /\ existing_ids' = {}
                      /\ result' = ScrapeResult(slug_now)
                      /\ pc' = "crawl"
                      /\ UNCHANGED <<conn, progress, results, i>>
                 ELSE IF Raises(fault)
                 THEN /\ existing_ids' = {}
                      /\ Handler(ScrapeResult(slug_now), StoreError(fault), "aborted",
                                 FALSE)
                 ELSE /\ existing_ids' = get_existing_video_ids(videos, slug_now)
                      /\ result' = ScrapeResult(slug_now)
                      /\ pc' = "crawl"
                      /\ UNCHANGED <<conn, progress, results, i>>
    /\ UNCHANGED <<videos, clients, fixed>>

\* Lines 669-677: the crawl, and the return of a dry run.
Crawl ==
    /\ pc = "crawl"
    /\ \E up \in {scrape_client(slug_now, remote[slug_now], args.max_pages, NetUp)} :
       \E net \in CrawlNets(slug_now, remote[slug_now], args.max_pages, MaxNetFaults) :
       \E c \in {scrape_client(slug_now, remote[slug_now], args.max_pages, net)} :
       \E fault \in BOOLEAN :
          LET found == [result EXCEPT !.videos_found = Len(c.records),
                                      !.categories_scraped = c.categories_scraped]
          IN  /\ log' = c.log
              /\ cat_logs' = c.cat_logs
              /\ site' = discover_site(remote[slug_now], net).site
              /\ IF c.raised
                 THEN /\ records' = records
                      /\ obs' = [obs EXCEPT ![slug_now] =
                                    Note([@ EXCEPT !.net_clean = FALSE],
                                         fault /\ ~args.dry_run, "progress")]
                      /\ Handler(result, "Could not access Swagit site", conn, fault)
                 ELSE /\ ~fault
                      /\ records' = c.records
                      /\ obs' = [obs EXCEPT ![slug_now].net_clean = (c = up)]
                      /\ IF args.dry_run
                         THEN Return([found EXCEPT !.success = TRUE])
                         ELSE /\ result' = found
                              /\ pc' = "upsert"
                              /\ UNCHANGED <<results, i>>
                      /\ UNCHANGED <<conn, progress>>
    /\ UNCHANGED <<videos, clients, existing_ids, enriched, fixed>>

\* Lines 679-682: upsert_videos, whose statements are committed together.
Upsert ==
    /\ pc = "upsert"
    /\ \E fault \in BOOLEAN :
          /\ fault => records # <<>>
          /\ obs' = [obs EXCEPT ![slug_now] = Note(@, fault, "upsert")]
          /\ IF records # <<>> /\ Raises(fault)
             THEN /\ videos' = videos
                  /\ Handler(result, StoreError(fault), "aborted", FALSE)
             ELSE \E up \in {upsert_videos(videos, records)} :
                      /\ videos' = up.videos
                      /\ result' = [result EXCEPT !.videos_new = up.new_count,
                                                  !.videos_updated = up.updated_count,
                                                  !.success = TRUE]
                      /\ pc' = "count"
                      /\ UNCHANGED <<conn, progress, results, i>>
    /\ UNCHANGED <<clients, locals, fixed>>

\* Line 684: update_client_video_count.
UpdateCount ==
    /\ pc = "count"
    /\ \E fault \in BOOLEAN :
          /\ obs' = [obs EXCEPT ![slug_now] = Note(@, fault, "count")]
          /\ IF Raises(fault)
             THEN /\ clients' = clients
                  /\ Handler(result, StoreError(fault), "aborted", FALSE)
             ELSE /\ clients' = update_client_video_count(clients, videos, slug_now)
                  /\ pc' = IF args.enrich_hls /\ result.videos_new > 0
                           THEN "enrich" ELSE "progress"
                  /\ UNCHANGED <<conn, progress, result, results, i>>
    /\ UNCHANGED <<videos, locals, fixed>>

\* Lines 686-687: enrich_missing_hls.
Enrich ==
    /\ pc = "enrich"
    /\ \E up \in {enrich_missing_hls(videos, slug_now, remote[slug_now], records,
                                       existing_ids, ENRICH_LIMIT, NetUp, 0)},
          todo \in {EnrichSelection(records, existing_ids, ENRICH_LIMIT)} :
       \E net \in DetailNets(remote[slug_now], todo, MaxNetFaults), fault_at \in 0 .. Len(todo) :
       \E e \in {enrich_missing_hls(videos, slug_now, remote[slug_now], records,
                                     existing_ids, ENRICH_LIMIT, net, fault_at)} :
              /\ videos' = e.videos
              /\ enriched' = e.fetched
              /\ obs' = [obs EXCEPT ![slug_now] =
                            [net_clean |-> @.net_clean /\ (e.raised \/ e = up),
                             store_fault |-> IF e.raised THEN "enrich"
                                             ELSE @.store_fault]]
              /\ IF e.raised
                 THEN Handler(result, "store error", "aborted", FALSE)
                 ELSE /\ pc' = "progress"
                      /\ UNCHANGED <<conn, progress, result, results, i>>
    /\ UNCHANGED <<clients, existing_ids, records, log, cat_logs, site, fixed>>

\* Line 689: update_scrape_progress, then the return of line 709.
Progress ==
    /\ pc = "progress"
    /\ \E fault \in BOOLEAN :
          /\ obs' = [obs EXCEPT ![slug_now] = Note(@, fault, "progress")]
          /\ IF Raises(fault)
             THEN Handler(result, StoreError(fault), "aborted", FALSE)
             ELSE /\ progress' = update_scrape_progress(progress, slug_now, result)
                  /\ Return(result)
                  /\ UNCHANGED conn
    /\ UNCHANGED <<videos, clients, locals, fixed>>

\* main after the loop: close the connection, report, exit.
FinishRun ==
    /\ pc = "site"
    /\ i > Len(args.slugs)
    /\ conn' = "closed"
    /\ exit_code' = IF \E k \in DOMAIN results : ~results[k].success THEN 1 ELSE 0
    /\ pc' = "idle"
    /\ result' = ScrapeResult("")
    /\ existing_ids' = {}
    /\ records' = <<>>
    /\ log' = <<>>
    /\ cat_logs' = <<>>
    /\ enriched' = <<>>
    /\ site' = NULL
    /\ UNCHANGED <<remote, store, run, args, i, results, obs, start, prev, http>>

Next ==
    \/ StartRun
    \/ GetExisting
    \/ Crawl
    \/ Upsert
    \/ UpdateCount
    \/ Enrich
    \/ Progress
    \/ FinishRun

Spec == Init /\ [][Next]_vars

\* ------------------------------------------------------ upsert on its own

\* The columns that the ON CONFLICT clause merges with COALESCE.
MergedFields ==
    {"video_date", "duration", "video_uuid", "hls_url", "download_url", "agenda_url"}

\* The records of video 1 of site "a" with the given title, each merged column
\* either NULL or Some(v).
RecordsWith(title, v) ==
    {[city_slug |-> "a", video_id |-> 1, title |-> title,
      video_date |-> f["video_date"], duration |-> f["duration"],
      video_uuid |-> f["video_uuid"], hls_url |-> f["hls_url"],
      download_url |-> f["download_url"], agenda_url |-> f["agenda_url"],
      data |-> [title |-> title, payload |-> v]] :
        f \in [MergedFields -> {NULL, Some(v)}]}

\* A connection on a table that is empty or holds one row of video 1.
InitUpsert ==
    /\ videos \in {{}} \cup {{r} : r \in RecordsWith("Old title", "old")}
    /\ start = videos
    /\ records = <<>>
    /\ args = Args(<<"a">>, FALSE, 0, FALSE)
    /\ remote = [s \in {"a"} |-> SiteEmpty]
    /\ clients = [s \in {"a"} |-> Cardinality(videos)]
    /\ progress = [s \in {"a"} |-> NULL]
    /\ conn = "ready"
    /\ run = 0
    /\ i = 1
    /\ results = <<>>
    /\ exit_code = 0
    /\ pc = "upsert"
    /\ result = ScrapeResult("a")
    /\ existing_ids = {}
    /\ log = <<>>
    /\ cat_logs = <<>>
    /\ enriched = <<>>
    /\ obs = [s \in {"a"} |-> Observation]
    /\ prev = NULL
    /\ site = NULL
    /\ wire = <<>>
    /\ calls = <<>>

\* One call of upsert_videos with one record, of any shape; start keeps the
\* table as it was before the call, run counts the calls.
UpsertCall ==
    /\ run < MaxUpsertCalls
    /\ run' = run + 1
    /\ \E rec \in RecordsWith("New title", "new") :
       \E up \in {upsert_videos(videos, <<rec>>)} :
          /\ records' = <<rec>>
          /\ start' = videos
          /\ videos' = up.videos
          /\ result' = [result EXCEPT !.videos_new = up.new_count,
                                      !.videos_updated = up.updated_count]
    /\ UNCHANGED <<remote, clients, progress, conn, args, i, results, exit_code,
                   pc, existing_ids, log, cat_logs, enriched, obs, prev, site, http>>

NextUpsert == UpsertCall

SpecUpsert == InitUpsert /\ [][NextUpsert]_vars

\* ------------------------------------------------------- fetch on its own

\* What an attempt of session.get can end in: an HTTP status, or 0 for
\* requests.RequestException (connection error, timeout).
Statuses == {200, 404, 410, 500, 503, 0}

\* The retries arguments in the program: the default, and the 1 of
\* enrich_video_hls.
RetriesUsed == {MAX_RETRIES, 1}

\* Attempts with the absent test narrowed to 404.
IsNotFound(status) == status = 404

\* resp.status_code in (404, 410)
IsAbsent(status) == status \in {404, 410}

\* Attempts one too many: range(1, retries + 2).
AttemptsOneMore(retries) == 1 .. retries + 1

\* range(1, retries + 1)
Attempts(retries) == 1 .. retries

\* One thing that happens on the wire or the clock: kind is "GET" (with the
\* status it ends in), "delay" (sleep(RATE_LIMIT_DELAY)) or "backoff"
\* (sleep(2 * attempt)); call is the number of the fetch call it belongs to.
Event(call, kind, status) == [call |-> call, kind |-> kind, status |-> status]

\* A call of fetch: attempt is the loop variable, statuses what its attempts
\* ended in, returned the response (Some("body")) or None once done.
FetchFrame(retries) ==
    [retries |-> retries, attempt |-> 1, statuses |-> <<>>, done |-> FALSE,
     returned |-> NULL]

\* The variables that fetch does not touch, at rest.
Parked ==
    /\ args = Args(<<"a">>, FALSE, 0, FALSE)
    /\ remote = [s \in {"a"} |-> SiteEmpty]
    /\ videos = {}
    /\ start = {}
    /\ clients = [s \in {"a"} |-> 0]
    /\ progress = [s \in {"a"} |-> NULL]
    /\ conn = "closed"
    /\ run = 0
    /\ i = 1
    /\ results = <<>>
    /\ exit_code = 0
    /\ result = ScrapeResult("a")
    /\ existing_ids = {}
    /\ records = <<>>
    /\ log = <<>>
    /\ cat_logs = <<>>
    /\ enriched = <<>>
    /\ obs = [s \in {"a"} |-> Observation]
    /\ prev = NULL
    /\ site = NULL

InitFetch ==
    /\ Parked
    /\ pc = "fetch"
    /\ wire = <<>>
    /\ calls = <<>>

\* fetch is called (line 108-109), after the call before it returned.
FetchCall ==
    /\ Len(calls) < MaxFetchCalls
    /\ IF calls = <<>> THEN TRUE ELSE calls[Len(calls)].done
    /\ \E retries \in RetriesUsed : calls' = Append(calls, FetchFrame(retries))
    /\ UNCHANGED <<wire, beside_http>>

\* One iteration of the loop (lines 110-122) of the current call.
FetchAttempt ==
    /\ calls # <<>>
    /\ ~calls[Len(calls)].done
    /\ calls[Len(calls)].attempt \in Attempts(calls[Len(calls)].retries)
    /\ \E status \in Statuses :
          LET n == Len(calls)
              f == calls[n]
              get == <<Event(n, "GET", status)>>
              \* time.sleep(RATE_LIMIT_DELAY) follows session.get inside the
              \* try: an exception of session.get skips it.
              delay == IF status # 0 THEN <<Event(n, "delay", status)>> ELSE <<>>
              backoff == IF f.attempt < f.retries
                         THEN <<Event(n, "backoff", status)>> ELSE <<>>
              seen == [f EXCEPT !.statuses = Append(@, status)]
          IN  IF status = 200
              THEN /\ wire' = wire \o get \o delay
                   /\ calls' = [calls EXCEPT ![n] =
                                   [seen EXCEPT !.done = TRUE, !.returned = Some("body")]]
              ELSE IF status # 0 /\ IsAbsent(status)
              THEN /\ wire' = wire \o get \o delay
                   /\ calls' = [calls EXCEPT ![n] = [seen EXCEPT !.done = TRUE]]
              ELSE /\ wire' = wire \o get \o delay \o backoff
                   /\ calls' = [calls EXCEPT ![n] = [seen EXCEPT !.attempt = @ + 1]]
    /\ UNCHANGED beside_http

\* The loop is over: return None (line 123).
FetchGiveUp ==
    /\ calls # <<>>
    /\ ~calls[Len(calls)].done
    /\ calls[Len(calls)].attempt \notin Attempts(calls[Len(calls)].retries)
    /\ calls' = [calls EXCEPT ![Len(calls)].done = TRUE]
    /\ UNCHANGED <<wire, beside_http>>

NextFetch ==
    \/ FetchCall
    \/ FetchAttempt
    \/ FetchGiveUp

SpecFetch == InitFetch /\ [][NextFetch]_vars

\* -------------------------------------------------- enrichment on its own

\* The tables that hold one row per record of a crawl, each row with hls_url
\* and video_uuid either NULL or known from before.
StoresOf(records_) ==
    {{[records_[k] EXCEPT !.hls_url = f[k][1], !.video_uuid = f[k][2]] :
          k \in DOMAIN records_} :
        f \in [DOMAIN records_ ->
                 {NULL, Some("hls-old")} \X {NULL, Some("uuid-old")}]}

\* scrape_one_client at line 687, about to call enrich_missing_hls: any of the
\* portals with videos was crawled, its records are stored, and existing_ids
\* holds none or the first of them.
InitEnrich ==
    /\ args = Args(<<"a">>, FALSE, 1, TRUE)
    /\ remote \in [{"a"} -> {SiteSingle, SiteMulti, SiteNew}]
    /\ records = scrape_client("a", remote["a"], args.max_pages, NetUp).records
    /\ existing_ids \in {{}, {records[1].video_id}}
    /\ videos \in StoresOf(records)
    /\ start = videos
    /\ clients = [s \in {"a"} |-> Cardinality(videos)]
    /\ progress = [s \in {"a"} |-> NULL]
    /\ conn = "ready"
    /\ run = 1
    /\ i = 1
    /\ results = <<>>
    /\ exit_code = 0
    /\ pc = "enrich"
    /\ result = [ScrapeResult("a") EXCEPT
                    !.success = TRUE,
                    !.videos_found = Len(records),
                    !.videos_new = Len(NotExisting(records, existing_ids)),
                    !.videos_updated = Len(records) - Len(NotExisting(records, existing_ids))]
    /\ log = <<>>
    /\ cat_logs = <<>>
    /\ enriched = <<>>
    /\ obs = [s \in {"a"} |-> Observation]
    /\ prev = NULL
    /\ site = NULL
    /\ wire = <<>>
    /\ calls = <<>>

NextEnrich == Enrich

SpecEnrich == InitEnrich /\ [][NextEnrich]_vars

\* ------------------------------------------- the program on pages of any links

\* The links a page is made of here: a category tab of legacy view 7, one
\* of another view, a root-level category, and a video link, which is never
\* a category.
LinksTried ==
    {Href("viewcat", 7, "c1"), Href("viewcat", 8, "zz"), Href("rootcat", 0, "council"),
     Href("video", 1, "")}

\* The link lists of at most MaxLinks links, repeats included.
LinkLists == UNION {[1 .. n -> LinksTried] : n \in 0 .. MaxLinks}

\* The category pages and detail pages of the sites tried.
PagesBehind ==
    [cats |-> [n \in {"c1", "council"} |->
                 IF n = "c1" THEN <<ListPage(<<R1, R2>>, FALSE)>>
                 ELSE <<ListPage(<<R2b, R3>>, FALSE)>>],
     detail |-> [id \in {1} |-> Some(DetailPage(Some("hls"), NULL))]]

\* A legacy site whose /views/default/ leads to view 7 with the given tabs
\* and video rows.
LegacySite(tabs, rows) ==
    [default |-> Some(Page(7, tabs, <<>>, <<>>, rows, FALSE, NULL, NULL)),
     root |-> NULL,
     view |-> Some(ListPage(rows, FALSE)),
     view_id |-> 7,
     cats |-> PagesBehind.cats,
     endless |-> {},
     detail |-> PagesBehind.detail]

\* A site without /views/default/ whose root page has the given navigation
\* links, other links and video rows.
RootSite(nav, links, rows) ==
    [default |-> NULL,
     root |-> Some(Page(0, <<>>, nav, links, rows, FALSE, NULL, NULL)),
     view |-> NULL,
     view_id |-> 0,
     cats |-> PagesBehind.cats,
     endless |-> {},
     detail |-> PagesBehind.detail]

SitesTried ==
    {LegacySite(tabs, rows) : tabs \in LinkLists, rows \in {<<>>, <<R1>>}}
    \cup {RootSite(nav, <<>>, rows) : nav \in LinkLists, rows \in {<<>>, <<R1>>}}
    \cup {RootSite(<<>>, links, rows) : links \in LinkLists, rows \in {<<>>, <<R1>>}}

\* The script run for one site whose pages are any of SitesTried, on an
\* empty store.
InitPages ==
    /\ args = Args(<<"a">>, FALSE, 1, TRUE)
    /\ remote \in [{"a"} -> SitesTried]
    /\ videos = {}
    /\ clients = [s \in {"a"} |-> 0]
    /\ progress = [s \in {"a"} |-> NULL]
    /\ conn = "closed"
    /\ run = 0
    /\ i = 1
    /\ results = <<>>
    /\ exit_code = 0
    /\ pc = "idle"
    /\ result = ScrapeResult("")
    /\ existing_ids = {}
    /\ records = <<>>
    /\ log = <<>>
    /\ cat_logs = <<>>
    /\ enriched = <<>>
    /\ obs = [s \in {} |-> Observation]
    /\ start = videos
    /\ prev = NULL
    /\ site = NULL
    /\ wire = <<>>
    /\ calls = <<>>

SpecPages == InitPages /\ [][Next]_vars

\* ------------------------------------ the program on a site of many videos

\* The rows of a page that lists more videos than one enrichment pass takes:
\* ids 101, 102, ..., every third one without a date, the others on two days.
ManyRows ==
    [k \in 1 .. ENRICH_LIMIT + 4 |->
        Row(100 + k, "Meeting",
            IF k % 3 = 2 THEN "" ELSE IF k % 3 = 1 THEN "2024-01-05" ELSE "2024-01-12",
            "01:00", NULL)]

\* Single-page legacy site with those rows; three of the videos have a
\* detail page with the streaming patterns, the others have none.
SiteMany ==
    [default |-> Some(Page(7, <<>>, <<>>, <<>>, ManyRows, FALSE, NULL, NULL)),
     root |-> NULL,
     view |-> Some(ListPage(ManyRows, FALSE)),
     view_id |-> 7,
     cats |-> [n \in {} |-> <<>>],
     endless |-> {},
     detail |-> [id \in {100 + k : k \in DOMAIN ManyRows} |->
                   IF id \in {102, 103, 124}
                   THEN Some(DetailPage(Some("hls"), Some("uuid")))
                   ELSE NULL]]

\* Rows of two of its videos stored by an earlier run.
PriorMany == {VideoRecordOf(ManyRows[k], "a") : k \in {1, 3}}

\* The script run for that site, with and without --dry-run and --enrich-hls,
\* on an empty store and on one that holds two of the videos.
InitMany ==
    /\ args \in {Args(<<"a">>, d, 1, e) : d \in BOOLEAN, e \in BOOLEAN}
    /\ remote = [s \in {"a"} |-> SiteMany]
    /\ videos \in {{}, PriorMany}
    /\ clients = [s \in {"a"} |-> Cardinality(videos)]
    /\ progress = [s \in {"a"} |-> NULL]
    /\ conn = "closed"
    /\ run = 0
    /\ i = 1
    /\ results = <<>>
    /\ exit_code = 0
    /\ pc = "idle"
    /\ result = ScrapeResult("")
    /\ existing_ids = {}
    /\ records = <<>>
    /\ log = <<>>
    /\ cat_logs = <<>>
    /\ enriched = <<>>
    /\ obs = [s \in {} |-> Observation]
    /\ start = videos
    /\ prev = NULL
    /\ site = NULL
    /\ wire = <<>>
    /\ calls = <<>>

SpecMany == InitMany /\ [][Next]_vars

\* ------------------------------------------------- the failure-free pipeline

\* scrape_one_client (lines 667-689) of a run that is not a dry run, when no
\* request and no statement fails: the videos table it leaves.
scrape_one_client(rows_, slug, remote_site, a) ==
    One({IF c.raised THEN rows_
         ELSE One({IF a.enrich_hls /\ up.new_count > 0
                   THEN enrich_missing_hls(up.videos, slug, remote_site, c.records,
                                           get_existing_video_ids(rows_, slug),
                                           ENRICH_LIMIT, NetUp, 0).videos
                   ELSE up.videos :
                      up \in {upsert_videos(rows_, c.records)}}) :
            c \in {scrape_client(slug, remote_site, a.max_pages, NetUp)}})

\* ----------------------------------------------------------------- properties

\* A finished run, and a finished re-run.
RunDone == pc = "idle" /\ run > 0
RerunDone == pc = "idle" /\ run = 2

\* Site k of a finished run completed successfully, every one of its requests
\* answered with the page the portal holds.
CompletedOn(res, o, k) ==
    /\ res[k].success
    /\ res[k].error = NULL
    /\ o[res[k].slug].net_clean

C2_MergeKeepsKnownValues ==
    \A old \in start : \A k \in DOMAIN records :
        Key(old) = Key(records[k]) =>
            \E new \in videos :
                /\ Key(new) = Key(old)
                /\ new.title = records[k].title
                /\ new.data = records[k].data
                /\ \A f \in MergedFields :
                      new[f] = IF records[k][f] = NULL THEN old[f] ELSE records[k][f]

\* C2 happens: an upsert met a stored row, kept a stored value where it
\* carried NULL and replaced another stored value.
C2_Witness ==
    \E old \in start, new \in videos :
        /\ records # <<>>
        /\ Key(old) = Key(records[1]) /\ Key(new) = Key(old)
        /\ old.video_date # NULL /\ records[1].video_date = NULL
        /\ new.video_date = old.video_date
        /\ old.hls_url # NULL /\ records[1].hls_url # NULL
        /\ records[1].hls_url # old.hls_url
        /\ new.hls_url = records[1].hls_url
        /\ new.title # old.title

\* C3: no two stored rows share the same (site, video id).
C3_KeysAreUnique ==
    \A r1, r2 \in videos : Key(r1) = Key(r2) => r1 = r2

\* C3 happens: a run that failed partway is followed by a run that updated
\* rows already stored, on a site that lists a video twice.
C3_Witness ==
    /\ RerunDone
    /\ \E k \in DOMAIN prev[1].results : prev[1].results[k].error # NULL
    /\ results[1].videos_updated > 0
    /\ remote[results[1].slug] \in {SiteSingle, SiteMulti}

\* C4: a result returned after an exception of any step has success = false
\* and carries the error.  (error is set by the except block alone.)
C4_ExceptionMeansFailure ==
    \A k \in DOMAIN results : results[k].error # NULL => ~results[k].success

\* C5: after the store raised while one site was being persisted (upsert,
\* count update, enrichment update or progress write), every later site of
\* the run that the environment leaves alone (its requests answered, no store
\* fault of its own) is crawled and persisted as in a failure-free run.
C5_LaterSitesUnaffected ==
    RunDone =>
        \A j, k \in DOMAIN results :
            (j < k /\ obs[results[j].slug].store_fault
                          \in {"upsert", "count", "enrich", "progress"}
                   /\ obs[results[k].slug].store_fault = "none"
                   /\ obs[results[k].slug].net_clean)
            => /\ results[k].error = NULL
               /\ results[k].success
               /\ RowsOf(videos, results[k].slug)
                     = RowsOf(scrape_one_client(start, results[k].slug,
                                                remote[results[k].slug], args),
                              results[k].slug)

\* C6: one call of scrape_paginated issues at most max_pages page fetches.
C6_AtMostMaxPagesFetches ==
    \A c \in DOMAIN cat_logs : Len(cat_logs[c]) <= args.max_pages

\* C6 happens: the ceiling, and nothing else, ended a call.
C6_Witness ==
    \E c \in DOMAIN cat_logs :
        /\ args.max_pages > 0
        /\ Len(cat_logs[c]) = args.max_pages
        /\ cat_logs[c][args.max_pages].ok
        /\ cat_logs[c][args.max_pages].new_on_page > 0
        /\ cat_logs[c][args.max_pages].next

\* C7: a call of scrape_paginated asks for pages 1, 2, 3, ... in order, and
\* for page n + 1 only if page n came back, added a video not seen before,
\* had a 'Next' link and n is below the ceiling; a first page with records
\* and no 'Next' link is the only page asked for.
C7_PagesInOrderWhileNext ==
    \A c \in DOMAIN cat_logs :
        /\ \A n \in DOMAIN cat_logs[c] :
              /\ cat_logs[c][n].url.kind = "cat"
              /\ cat_logs[c][n].url.name = cat_logs[c][1].url.name
              /\ cat_logs[c][n].url.n = n
              /\ n > 1 => /\ cat_logs[c][n - 1].ok
                          /\ cat_logs[c][n - 1].new_on_page > 0
                          /\ cat_logs[c][n - 1].next
                          /\ n - 1 < args.max_pages
        /\ (cat_logs[c] # <<>> /\ cat_logs[c][1].ok /\ cat_logs[c][1].new_on_page > 0
               /\ ~cat_logs[c][1].next)
           => Len(cat_logs[c]) = 1

\* C7 happens: one call went on to a second page, and another call of the
\* same crawl stopped at a first page with records and no 'Next' link.
C7_Witness ==
    /\ \E c \in DOMAIN cat_logs : Len(cat_logs[c]) >= 2
    /\ \E c \in DOMAIN cat_logs :
          /\ Len(cat_logs[c]) = 1
          /\ cat_logs[c][1].ok /\ cat_logs[c][1].new_on_page > 0 /\ ~cat_logs[c][1].next

\* The video ids on the video-list pages (the view page and the category
\* pages) that a crawl got an answer for, read from the portal.
IdsOnPagesFetched(remote_site, log_) ==
    UNION {{RemotePage(remote_site, log_[k].url)[1].rows[j].video_id :
               j \in DOMAIN RemotePage(remote_site, log_[k].url)[1].rows} :
           k \in {n \in DOMAIN log_ : log_[n].ok /\ log_[n].url.kind \in {"view", "cat"}}}

\* C8: the record list of scrape_client holds each video id once, its ids are
\* the union of the ids on the default view page and the category pages
\* fetched, and videos_found is the size of that union.
C8_RecordsAreTheUnion ==
    (result.slug \in DOMAIN remote /\ pc # "crawl") =>
        /\ \A j, k \in DOMAIN records : records[j].video_id = records[k].video_id => j = k
        /\ Ids(records) = IdsOnPagesFetched(remote[result.slug], log)
        /\ result.videos_found = Cardinality(IdsOnPagesFetched(remote[result.slug], log))

\* C8 happens: default page {1,2}, category page {2,3}, three videos found.
C8_Witness ==
    /\ result.slug \in DOMAIN remote /\ pc # "crawl"
    /\ remote[result.slug] = SiteMulti
    /\ Len(cat_logs) = 1
    /\ Ids(records) = {1, 2, 3}
    /\ Len(records) = 3
    /\ result.videos_found = 3

\* C9: a re-run, with the same flags and pages and with nothing failing, after
\* a run that failed partway leaves the video rows that one failure-free run
\* from the same beginning would have left.
C9_RerunConverges ==
    (/\ RerunDone /\ ~args.dry_run
     /\ \E k \in DOMAIN prev[1].results : prev[1].results[k].error # NULL
     /\ \A k \in DOMAIN results : CompletedOn(results, obs, k))
    => videos = scrape_one_client(prev[1].start, results[1].slug,
                                  remote[results[1].slug], args)

\* C10: no step removes a stored row: the (site, video id) keys only grow.
C10_KeysOnlyGrow == [][KeysOf(videos) \subseteq KeysOf(videos')]_vars

\* C10 happens: a crawl that no longer lists a stored video was upserted,
\* and the video is still stored.
C10_Witness ==
    /\ pc = "count"
    /\ result.videos_found > 0
    /\ Key([city_slug |-> "a", video_id |-> 99]) \in KeysOf(videos)
    /\ 99 \notin Ids(records)

\* The site that scrape_one_client is working on, if any.
Processing == IF pc = "idle" \/ i > Len(args.slugs) THEN {} ELSE {slug_now}

\* C11: no step taken while one site is processed, whether the step succeeds
\* or raises, changes a row of another site: the rows committed for the
\* other sites stay as they are, field for field.
C11_OtherSitesRowsUntouched ==
    [][\A s \in DOMAIN remote \ Processing : RowsOf(videos', s) = RowsOf(videos, s)]_vars

\* C11 happens: rows were committed for the first site in this run, and the
\* second site then wrote its own rows and raised.
C11_Witness ==
    /\ Len(results) = 2
    /\ RowsOf(videos, results[1].slug) # RowsOf(start, results[1].slug)
    /\ results[2].videos_new > 0
    /\ results[2].error # NULL

\* C12: main returns one result per site of the list, in list order, whatever
\* failed, and exits non-zero exactly when the processing of some site failed:
\* the site was unreachable or a step raised (error is set), or its result
\* says success = false.
C12_ExitCodeSignalsFailure ==
    RunDone =>
        /\ Len(results) = Len(args.slugs)
        /\ \A k \in DOMAIN results : results[k].slug = args.slugs[k]
        /\ (exit_code # 0) <=> (\E k \in DOMAIN results :
                                   results[k].error # NULL \/ ~results[k].success)

\* The events of one call of fetch, and the requests among them.
EventsOf(c) == SelectSeq(wire, LAMBDA e : e.call = c)
Requests(events) == {k \in DOMAIN events : events[k].kind = "GET"}

\* C13: an attempt that ends in HTTP 404 or 410, whichever attempt it is, is
\* the last request of its call, and the call returns None at once.
C13_AbsentIsNotRetried ==
    \A c \in DOMAIN calls :
        /\ Cardinality(Requests(EventsOf(c))) = Len(calls[c].statuses)
        /\ \A k \in DOMAIN calls[c].statuses :
              calls[c].statuses[k] \in {404, 410}
              => /\ k = Len(calls[c].statuses)
                 /\ calls[c].done
                 /\ calls[c].returned = NULL

\* C13 happens: a second attempt ended in 410 Gone.
C13_Witness ==
    \E c \in DOMAIN calls :
        /\ calls[c].retries = 2
        /\ calls[c].statuses = <<500, 410>>
        /\ calls[c].done

\* C14: a call of fetch with the default bound makes at most 2 requests; the
\* second only after a first that ended in an exception or in a status other
\* than 200, 404, 410, and after a backoff sleep; a failure of the second ends
\* the call with None; a 200 on either attempt ends it with the response.
C14_AtMostTwoRequests ==
    \A c \in DOMAIN calls :
        calls[c].retries = MAX_RETRIES =>
            LET st == calls[c].statuses
                ev == EventsOf(c)
            IN  /\ Len(st) <= 2
                /\ Cardinality(Requests(ev)) = Len(st)
                /\ Len(st) = 2 => st[1] \notin {200, 404, 410}
                /\ \A j, k \in Requests(ev) :
                      j < k => \E m \in j + 1 .. k - 1 : ev[m].kind = "backoff"
                /\ \A k \in DOMAIN st :
                      st[k] = 200 => /\ k = Len(st)
                                     /\ calls[c].done
                                     /\ calls[c].returned # NULL
                /\ (calls[c].done /\ st[Len(st)] # 200) => calls[c].returned = NULL

\* C14 happens: the first attempt timed out, the second got the page.
C14_Witness ==
    \E c \in DOMAIN calls :
        /\ calls[c].retries = MAX_RETRIES
        /\ calls[c].statuses = <<0, 200>>
        /\ calls[c].done
        /\ calls[c].returned # NULL

\* C15, in its weakest form: between any two requests, of one call of fetch or
\* of two, some sleep (the politeness delay or a backoff) is taken.
C15_SleepBetweenRequests ==
    \A j, k \in Requests(wire) :
        j < k => \E m \in j + 1 .. k - 1 : wire[m].kind \in {"delay", "backoff"}

\* What a finished call of fetch met: "ok", "absent" (404, 410) or
\* "transient-error" (retries used up on exceptions and other statuses).
OutcomeOf(f) ==
    IF f.statuses # <<>> /\ f.statuses[Len(f.statuses)] = 200 THEN "ok"
    ELSE IF f.statuses # <<>> /\ f.statuses[Len(f.statuses)] \in {404, 410}
    THEN "absent"
    ELSE "transient-error"

\* C16: the value that fetch returns tells the three outcomes apart: two
\* finished calls that returned the same value met the same outcome.
C16_ReturnTellsOutcome ==
    \A c, d \in DOMAIN calls :
        (calls[c].done /\ calls[d].done /\ calls[c].returned = calls[d].returned)
        => OutcomeOf(calls[c]) = OutcomeOf(calls[d])

\* What the two patterns of enrich_video_hls find on the detail page that the
\* portal holds for a video: NULL when there is no page or no match.
OnDetailPage(remote_site, video_id, field) ==
    IF RemotePage(remote_site, UrlVideo(video_id)) = NULL THEN NULL
    ELSE RemotePage(remote_site, UrlVideo(video_id))[1][field]

\* C17: an enrichment pass leaves every stored row in place with every field
\* but hls_url and video_uuid as it was, and each of these two either as it
\* was or set to the non-null value on the detail page: nothing found, or
\* no page fetched, keeps the stored value, and finding one of the two keeps
\* the other.
C17_EnrichTouchesTwoFields ==
    /\ Cardinality(videos) = Cardinality(start)
    /\ \A old \in start :
          \E new \in videos :
              /\ [new EXCEPT !.hls_url = old.hls_url, !.video_uuid = old.video_uuid] = old
              /\ new.hls_url # old.hls_url
                 => /\ new.hls_url # NULL
                    /\ new.hls_url = OnDetailPage(remote[old.city_slug], old.video_id, "hls")
              /\ new.video_uuid # old.video_uuid
                 => /\ new.video_uuid # NULL
                    /\ new.video_uuid = OnDetailPage(remote[old.city_slug], old.video_id, "uuid")

\* C17 happens: a pass found the stream of one row whose uuid was known and
\* is kept, and found nothing for another row whose two values are kept.
C17_Witness ==
    /\ pc = "progress"
    /\ \E old \in start, new \in videos :
          /\ Key(old) = Key(new)
          /\ old.video_uuid # NULL /\ new.video_uuid = old.video_uuid
          /\ OnDetailPage(remote[old.city_slug], old.video_id, "uuid") = NULL
          /\ new.hls_url # old.hls_url
    /\ \E old \in start :
          /\ old \in videos
          /\ \E k \in DOMAIN enriched : enriched[k] = old.video_id
          /\ old.hls_url # NULL /\ old.video_uuid # NULL

\* The enrichment pass of the site of result is over: it came back, or a
\* store error left it.
EnrichmentOver ==
    /\ result.slug \in DOMAIN obs
    /\ \/ pc = "progress" /\ args.enrich_hls /\ result.videos_new > 0
       \/ obs[result.slug].store_fault = "enrich"

\* C18: whatever fails for one record of an enrichment pass (its detail page
\* cannot be fetched, its UPDATE raises), the pass raises nothing: every
\* selected record is attempted, and the result stays that of a successful
\* crawl, without error.
C18_EnrichmentRaisesNothing ==
    EnrichmentOver =>
        /\ result.error = NULL
        /\ result.success
        /\ enriched = [k \in DOMAIN EnrichSelection(records, existing_ids, ENRICH_LIMIT) |->
                          EnrichSelection(records, existing_ids, ENRICH_LIMIT)[k].video_id]

\* C19: with --dry-run no step changes videos, clients or scrape_progress.
C19_DryRunWritesNothing ==
    [][args.dry_run => store' = store]_vars

\* C19 happens: a dry run is over in which the crawl of one site raised and
\* the crawl of another found videos.
C19_Witness ==
    /\ RunDone /\ args.dry_run
    /\ \E k \in DOMAIN results : results[k].error # NULL
    /\ \E k \in DOMAIN results : results[k].videos_found > 0 /\ results[k].success

\* The crawl in log asked for the site root, which discover_site does only
\* when the legacy path gave no numeric view id, and got no answer.
RootFailed ==
    \E k \in DOMAIN log : log[k].url = UrlRoot /\ ~log[k].ok

\* C20: when the legacy path gives no view id and the fetch of the site root
\* fails, the site's result is success = false with the error, no video row
\* of the site is written or changed, and main goes on to the sites after it.
C20_UnreachableSiteFailsAlone ==
    /\ RootFailed
       => /\ result.error = Some("Could not access Swagit site")
          /\ ~result.success
          /\ RowsOf(videos, result.slug) = RowsOf(start, result.slug)
    /\ RunDone
       => /\ Len(results) = Len(args.slugs)
          /\ \A k \in DOMAIN results :
                results[k].error = Some("Could not access Swagit site")
                => /\ ~results[k].success
                   /\ RowsOf(videos, results[k].slug) = RowsOf(start, results[k].slug)

\* C20 happens: the first site, with rows stored, was unreachable, and the
\* site after it was crawled and stored.
C20_Witness ==
    /\ RunDone
    /\ Len(results) = 2
    /\ results[1].error = Some("Could not access Swagit site")
    /\ RowsOf(videos, results[1].slug) # {}
    /\ results[2].success /\ results[2].error = NULL /\ results[2].videos_new > 0

\* The crawl of the site of result is over (scrape_client returned or raised).
Crawled == result.slug \in DOMAIN remote /\ pc # "crawl"

\* The distinct ids of the video rows of a page.
RowIds(html) == {html.rows[k].video_id : k \in DOMAIN html.rows}

\* The crawl in log met a single-page site: /views/default/ led to a view
\* with videos and no category tab, and the view page was then fetched.
SinglePageFetched ==
    /\ Crawled
    /\ Len(log) >= 2
    /\ log[1].url = UrlDefault /\ log[1].ok
    /\ remote[result.slug].default[1].final_view > 0
    /\ DiscoverLegacy(remote[result.slug].default[1]).type = "old_single"
    /\ log[2].ok

\* C21: for a single-page site whose view page is fetched, the crawl asks for
\* that view page once after discovery and for no category page, videos_found
\* is the number of distinct video ids of the rows of the page, and
\* categories_scraped = 1.
C21_SinglePageFetchedOnce ==
    SinglePageFetched =>
        /\ Len(log) = 2
        /\ log[2].url = UrlView(remote[result.slug].default[1].final_view)
        /\ cat_logs = <<>>
        /\ result.videos_found
              = Cardinality(RowIds(RemotePage(remote[result.slug], log[2].url)[1]))
        /\ result.categories_scraped = 1

\* C21 happens: the page with rows 10, 11, 12 (and 10 once more) gives 3
\* videos and 1 category.
C21_Witness ==
    /\ SinglePageFetched
    /\ remote[result.slug] = SiteSingle
    /\ Ids(records) = {10, 11, 12}
    /\ result.videos_found = 3
    /\ result.categories_scraped = 1

\* C22: the category list of a descriptor returned by discover_site holds no
\* path twice, whether it was collected from the legacy tabs, from the
\* stacked or tabbed navigation, or from all links.
C22_CategoryPathsDistinct ==
    site # NULL =>
        \A j, k \in DOMAIN site[1].categories :
            site[1].categories[j] = site[1].categories[k] => j = k

\* The crawl in log got past discovery, and a fetch of the view page or of a
\* category page returned None.
PageFetchFailed ==
    /\ Crawled
    /\ site # NULL
    /\ \E k \in DOMAIN log : ~log[k].ok /\ log[k].url.kind \in {"view", "cat"}

\* C23: when the fetch of a page after discovery fails, the pagination of
\* that category stops there, the records of the pages fetched are kept, each
\* category of the descriptor is still crawled, in order, and the crawl does
\* not make the site fail: the result carries no error of the crawl, and a
\* result returned without error has success = true.
C23_PageFailureStopsOnlyItsCategory ==
    PageFetchFailed =>
        /\ \A c \in DOMAIN cat_logs : \A n \in DOMAIN cat_logs[c] :
              ~cat_logs[c][n].ok => n = Len(cat_logs[c])
        /\ IdsOnPagesFetched(remote[result.slug], log) \subseteq Ids(records)
        /\ Len(cat_logs) = Len(site[1].categories)
        /\ \A c \in DOMAIN cat_logs : \A n \in DOMAIN cat_logs[c] :
              cat_logs[c][n].url.name = site[1].categories[c].name
        /\ result.error \in {NULL, Some("store error"), Some("InFailedSqlTransaction")}
        /\ (pc = "site" /\ result.error = NULL) => result.success

\* C23 happens: the second page of a category failed after its first page
\* gave records, the category after it was crawled, and the site was stored
\* and returned with success = true.
C23_Witness ==
    /\ PageFetchFailed
    /\ ~args.dry_run
    /\ pc = "site" /\ result.success /\ result.error = NULL
    /\ \E c \in DOMAIN cat_logs :
          /\ Len(cat_logs[c]) = 2
          /\ cat_logs[c][1].new_on_page > 0
          /\ ~cat_logs[c][2].ok
          /\ c < Len(cat_logs)
          /\ cat_logs[c + 1] # <<>>
          /\ cat_logs[c + 1][1].ok
    /\ result.videos_new > 0

\* The crawled record of a video id.
RecordOf(video_id) ==
    records[CHOOSE k \in DOMAIN records : records[k].video_id = video_id]

\* C24: the detail pages asked for in one site crawl are those of at most 20
\* records, each once, each of a video id that was not stored when the crawl
\* began, in descending date order with the undated ones last, and none of
\* the new records left out goes before one that was taken; the pass runs
\* only with --enrich-hls, without --dry-run, and after an upsert that
\* reported a new record.
C24_EnrichesNewestTwentyNew ==
    enriched # <<>> =>
        /\ args.enrich_hls /\ ~args.dry_run /\ result.videos_new > 0
        /\ Len(enriched) <= ENRICH_LIMIT
        /\ \A j, k \in DOMAIN enriched : enriched[j] = enriched[k] => j = k
        /\ \A k \in DOMAIN enriched :
              /\ enriched[k] \in Ids(records)
              /\ enriched[k] \notin get_existing_video_ids(start, result.slug)
        /\ \A j, k \in DOMAIN enriched :
              j < k => DateKey(RecordOf(enriched[j])) >= DateKey(RecordOf(enriched[k]))
        /\ \A id \in Ids(records) \ get_existing_video_ids(start, result.slug) :
              (\A k \in DOMAIN enriched : enriched[k] # id)
              => \A k \in DOMAIN enriched :
                    DateKey(RecordOf(enriched[k])) >= DateKey(RecordOf(id))

\* C24 happens: of 22 new records, dated and undated, among 24 crawled, the
\* pass asked for 20, undated ones among them, and left undated ones out.
C24_Witness ==
    /\ Len(enriched) = ENRICH_LIMIT
    /\ existing_ids # {}
    /\ Cardinality(Ids(records) \ existing_ids) > ENRICH_LIMIT
    /\ RecordOf(enriched[1]).video_date # NULL
    /\ RecordOf(enriched[ENRICH_LIMIT]).video_date = NULL
    /\ \E r \in videos : r.hls_url # NULL

\* The upsert of the site of result, in a run that is not a dry run, went
\* through: success is set right after it (line 682).
Upserted == Crawled /\ ~args.dry_run /\ result.success

\* C25: after the upsert of a crawl, videos_new is the number of crawled
\* records whose (site, video id) was not stored before the upsert,
\* videos_updated the number of those whose key was stored, and the two add
\* up to videos_found.  (existing_ids holds the ids stored for the site
\* before the crawl, and nothing is stored between that and the upsert.)
C25_CountsSplitFoundByKey ==
    Upserted =>
        /\ result.videos_new
              = Cardinality({k \in DOMAIN records : records[k].video_id \notin existing_ids})
        /\ result.videos_updated
              = Cardinality({k \in DOMAIN records : records[k].video_id \in existing_ids})
        /\ result.videos_new + result.videos_updated = result.videos_found

\* C25 happens: a crawl of three videos on a store that held two of them
\* and a third video that the crawl did not meet.
C25_Witness ==
    /\ Upserted
    /\ result.videos_new = 1 /\ result.videos_updated = 2 /\ result.videos_found = 3
    /\ \E id \in existing_ids : id \notin Ids(records)

\* The scrape_progress row that describes a returned ScrapeResult.
ProgressOf(res) ==
    Some([status |-> IF res.success THEN "completed" ELSE "error",
          records_scraped |-> res.videos_found,
          error_message |-> res.error])

\* C26: in a run that is not a dry run, once scrape_one_client has returned
\* for a site, whether it succeeded or failed at any step, the progress
\* record of the site describes that result: status 'completed' exactly when
\* success = true, records_scraped = videos_found, error_message the error.
C26_ProgressDescribesTheRun ==
    ~args.dry_run =>
        \A k \in DOMAIN results :
            progress[results[k].slug] = ProgressOf(results[k])

\* C27: the rows of the upsert are committed when the count is recomputed
\* (they stay even if a later step raises), and once the count step of a
\* crawl that raised nothing is over, video_count of the site's clients row
\* is the number of video rows stored for the site.
C27_CountFollowsCommittedUpsert ==
    /\ Upserted => Ids(records) \subseteq get_existing_video_ids(videos, result.slug)
    /\ (/\ Upserted
        /\ result.error = NULL
        /\ pc \in {"enrich", "progress", "site"}
        /\ result.slug \in DOMAIN clients)
       => clients[result.slug] = Cardinality(RowsOf(videos, result.slug))

\* C27 happens: a crawl added rows to a site that had rows, one of them no
\* longer listed, and returned; the count is that of all the rows.
C27_Witness ==
    /\ Upserted /\ result.error = NULL /\ pc = "site"
    /\ result.slug \in DOMAIN clients
    /\ result.videos_new > 0
    /\ RowsOf(start, result.slug) # {}
    /\ clients[result.slug] > result.videos_found
    /\ clients[result.slug] = Cardinality(RowsOf(videos, result.slug))

\* C28: a row that is stored when a run begins is never selected by the
\* enrichment of that run, and if its hls_url and video_uuid are NULL at that
\* moment they are NULL throughout the run, whatever its detail page holds.
C28_StoredRowsAreNeverEnriched ==
    run >= 1 =>
        \A r \in start :
            /\ r.city_slug = result.slug
               => \A k \in DOMAIN enriched : enriched[k] # r.video_id
            /\ (r.hls_url = NULL /\ r.video_uuid = NULL)
               => \A q \in videos :
                     Key(q) = Key(r) => q.hls_url = NULL /\ q.video_uuid = NULL

\* C28 happens: the first run inserted a row and did not enrich it although
\* its detail page has a pattern; the second run found a new video, enriched
\* that one, and left the row as it was.
C28_Witness ==
    /\ run = 2 /\ pc = "progress"
    /\ enriched # <<>>
    /\ \E q \in videos : q.video_id = enriched[1] /\ q.hls_url # NULL
    /\ \E r \in start :
          /\ Key(r) \notin KeysOf(prev[1].start)
          /\ r.hls_url = NULL /\ r.video_uuid = NULL
          /\ OnDetailPage(remote[r.city_slug], r.video_id, "uuid") # NULL
          /\ r.video_id \in Ids(records)
          /\ r \in videos

\* The crawl in log got the root page, and the page has video links but no
\* link that the navigation loop or the all-links fallback takes as a
\* category.
RootVideosOnly ==
    /\ Crawled
    /\ Len(log) >= 2
    /\ log[2].url = UrlRoot /\ log[2].ok
    /\ NavCategories(remote[result.slug].root[1].nav) = <<>>
    /\ FallbackCategories(AllLinks(remote[result.slug].root[1]), 1, {}) = <<>>
    /\ VideoIdsIn(remote[result.slug].root[1]) # {}

\* C29: for a site that is new-style only because its root page has video
\* links, with no category path found, the crawl asks for no page after
\* discovery and gives zero records and zero categories; the crawl raises
\* nothing, a result returned without error has success = true, and no
\* video row of the site is stored.
C29_RootVideosAreNeverRead ==
    RootVideosOnly =>
        /\ site # NULL
        /\ site[1].type = "new_style"
        /\ site[1].categories = <<>>
        /\ Len(log) = 2
        /\ cat_logs = <<>>
        /\ records = <<>>
        /\ result.videos_found = 0
        /\ result.categories_scraped = 0
        /\ result.error \in {NULL, Some("store error"), Some("InFailedSqlTransaction")}
        /\ (pc = "site" /\ result.error = NULL) => result.success
        /\ RowsOf(videos, result.slug) = RowsOf(start, result.slug)

\* C29 happens: a root page with a video row and no category link was
\* crawled and the result returned, successful and empty.
C29_Witness ==
    /\ RootVideosOnly
    /\ remote[result.slug].root[1].rows # <<>>
    /\ pc = "site" /\ result.success /\ result.error = NULL
    /\ result.videos_found = 0
    /\ progress[result.slug] = ProgressOf(result)
    /\ videos = {}

\* C30: every crawled record has a duration that is not NULL (the empty
\* string when the row has none) and NULL video_uuid and hls_url; so after
\* the upsert of a crawl, a row that was stored before has the duration of
\* its record, empty or not, and the video_uuid and hls_url it had.
C30_CrawlReplacesDurationOnly ==
    /\ \A k \in DOMAIN records :
          /\ records[k].duration # NULL
          /\ records[k].video_uuid = NULL
          /\ records[k].hls_url = NULL
    /\ Upserted =>
          \A old \in start : \A k \in DOMAIN records :
              Key(old) = Key(records[k]) =>
                  \E new \in videos :
                      /\ Key(new) = Key(old)
                      /\ new.duration = records[k].duration
                      /\ new.video_uuid = old.video_uuid
                      /\ new.hls_url = old.hls_url

\* C30 happens: the upsert of a crawl replaced a stored duration by the
\* empty one of its record and left a stored hls_url and video_uuid alone.
C30_Witness ==
    /\ Upserted
    /\ \E old \in start, new \in videos :
          /\ Key(new) = Key(old)
          /\ old.duration \notin {NULL, Some("")}
          /\ new.duration = Some("")
    /\ \E old \in start, new \in videos :
          /\ Key(new) = Key(old)
          /\ old.video_id \in Ids(records)
          /\ old.hls_url # NULL /\ new.hls_url = old.hls_url
          /\ old.video_uuid # NULL /\ new.video_uuid = old.video_uuid

====
